---- MODULE Spec2Model ----
(***************************************************************************)
(* A model of package staticserver (srinathh/staticserver): the request    *)
(* resolution of StaticServer.ServeHTTP over a stat/open backend, the      *)
(* construction of the error handler table, and the closing of readers.    *)
(*                                                                         *)
(* Strings that are paths are modelled as the sequence of their            *)
(* slash-separated pieces: "" is <<"">>, "/" is <<"", "">>, "/a/../b" is   *)
(* <<"", "a", "..", "b">>.  Prefixing a string with "/" prepends an empty  *)
(* piece; appending "/x" appends the piece x.                              *)
(*                                                                         *)
(* Modelled: the StaticServer of the stat/open backends (constructors,     *)
(* setupErrorHandlers, ServeHTTP).  http.ServeContent is taken as the      *)
(* library call it is: it answers a plain GET with status 200 and the      *)
(* reader's content and returns; range and conditional requests are not    *)
(* modelled.  Logging writes to the logger only and is left out.  The      *)
(* older StaticServer over an OS root (NewStaticServer) is not modelled.   *)
(***************************************************************************)
EXTENDS Integers, Sequences, FiniteSets, TLC

\* ------------------------------------------------------------------ bounds
\* longest request path, counted in slash-separated pieces
MaxSegs == 2
\* number of requests that may be in flight at once under SpecConc
NumReqs == 2

Reqs == 1..NumReqs

\* the pieces request paths are built from
Segs == {"", ".", "..", "a", "index.html"}

UrlPaths == UNION {[1..n -> Segs] : n \in 1..MaxSegs}

\* ------------------------------------------------------- filepath.Clean
\* a cleaned path: whether it starts with the separator, and its elements
\* (the root "/" has no elements; the relative empty path is ".")
RECURSIVE CleanFrom(_, _, _, _, _)
CleanFrom(s, i, rooted, out, dotdot) ==
  IF i > Len(s) THEN out
  ELSE IF s[i] = "" \/ s[i] = "."
    THEN CleanFrom(s, i + 1, rooted, out, dotdot)
  ELSE IF s[i] = ".."
    THEN IF Len(out) > dotdot
           THEN CleanFrom(s, i + 1, rooted, SubSeq(out, 1, Len(out) - 1), dotdot)
         ELSE IF ~rooted
           THEN CleanFrom(s, i + 1, rooted, Append(out, ".."), Len(out) + 1)
         ELSE CleanFrom(s, i + 1, rooted, out, dotdot)
  ELSE CleanFrom(s, i + 1, rooted, Append(out, s[i]), dotdot)

IsRooted(s) == Len(s) >= 2 /\ s[1] = ""

Clean(s) ==
  LET rooted == IsRooted(s)
      out == CleanFrom(s, 1, rooted, <<>>, 0)
  IN  IF out = <<>> /\ ~rooted
        THEN [rooted |-> FALSE, names |-> <<".">>]
        ELSE [rooted |-> rooted, names |-> out]

\* the string a cleaned path stands for, as pieces
Raw(p) ==
  IF p.rooted
    THEN (IF p.names = <<>> THEN <<"", "">> ELSE <<"">> \o p.names)
    ELSE p.names

\* filepath.Join(p, elem): the elements joined by the separator, then Clean
Join(p, elem) == Clean(Append(Raw(p), elem))

\* "/" + r.URL.Path without the prefix: the request path as it came
PrefixRootMissing(u) == u

\* "/" + r.URL.Path
PrefixRoot(u) == <<"">> \o u

\* reqpath := filepath.Clean("/" + r.URL.Path)
CleanRequestPath(u) == Clean(PrefixRoot(u))

\* the path of the index document of directory p, without the join
IndexPathSame(p) == p

\* reqpath = filepath.Join(reqpath, "index.html")
IndexPath(p) == Join(p, "index.html")

RootPath == [rooted |-> TRUE, names |-> <<>>]

\* -------------------------------------------------------------- backend
\* the files a backend may hold, as element sequences below its root
FileCands ==
  { <<"index.html">>, <<"a">>, <<"a", "index.html">>, <<"a", "a">>,
    <<"index.html", "index.html">> }

IsPrefix(n, f) == Len(f) > Len(n) /\ SubSeq(f, 1, Len(n)) = n

\* a file tree: no file is also a directory
IsTree(fs) == \A f \in fs, g \in fs : ~IsPrefix(f, g)

\* a backend: its files, whether its open fails (a backend fault or a race
\* after a successful stat), and whether its readers have a Close method
Backends ==
  { [files |-> fs, failOpen |-> fo, closable |-> cl] :
      fs \in {x \in SUBSET FileCands : IsTree(x)},
      fo \in BOOLEAN, cl \in BOOLEAN }

IsDirIn(b, n) == n = <<>> \/ \E f \in b.files : IsPrefix(n, f)

Base(n) == IF n = <<>> THEN "/" ELSE n[Len(n)]

NoInfo == [err |-> TRUE, isDir |-> FALSE, name |-> "", modTime |-> <<>>]

\* ss.stat(path): os.FileInfo (Name, ModTime, IsDir) or an error
BackendStat(b, p) ==
  IF p.names \in b.files
    THEN [err |-> FALSE, isDir |-> FALSE, name |-> Base(p.names),
          modTime |-> <<"mtime">> \o p.names]
  ELSE IF IsDirIn(b, p.names)
    THEN [err |-> FALSE, isDir |-> TRUE, name |-> Base(p.names),
          modTime |-> <<"mtime">> \o p.names]
  ELSE NoInfo

FileContent(p) == <<"content">> \o p.names

NoReader ==
  [err |-> TRUE, path |-> RootPath, closable |-> FALSE, isopen |-> FALSE,
   content |-> <<>>]

\* ss.readerfn(path): an io.ReadSeeker onto the file, or an error
BackendOpen(b, p) ==
  IF b.failOpen \/ p.names \notin b.files
    THEN NoReader
    ELSE [err |-> FALSE, path |-> p, closable |-> b.closable,
          isopen |-> TRUE, content |-> FileContent(p)]

\* ------------------------------------------------------- error handlers
StatusNotFound == 404
StatusInternalServerError == 500
Codes == {StatusNotFound, StatusInternalServerError}

NilFunc == "nil"
DefaultHandler(code) ==
  IF code = StatusNotFound THEN "default404" ELSE "default500"
CustomHandler(code) ==
  IF code = StatusNotFound THEN "custom404" ELSE "custom500"

EmptyMap == [c \in {} |-> NilFunc]

\* var defaultErrorHandlers = map[int]http.HandlerFunc{...}
DefaultErrorHandlersInit == [c \in Codes |-> DefaultHandler(c)]

\* the tables a caller may pass: nil, or a map setting any of the codes
NilTable == [isNil |-> TRUE, m |-> EmptyMap]
CallerTables ==
  {NilTable} \cup
  { [isNil |-> FALSE, m |-> [c \in D |-> CustomHandler(c)]] : D \in SUBSET Codes }

\* a handler table held by a server: the package-level map itself (shared),
\* or a map of its own, or the nil map
SetupErrorHandlersDefaultsOnly(m, defaults) ==
  IF m.isNil
    THEN [shared |-> TRUE, isNil |-> FALSE, m |-> EmptyMap]
    ELSE [shared |-> FALSE, isNil |-> FALSE,
          m |-> [code \in DOMAIN defaults |-> defaults[code]]]

\* func setupErrorHandlers(m)
SetupErrorHandlers(m, defaults) ==
  IF m.isNil
    THEN [shared |-> TRUE, isNil |-> FALSE, m |-> EmptyMap]
    ELSE [shared |-> FALSE, isNil |-> FALSE,
          m |-> [code \in DOMAIN defaults |->
                   IF code \in DOMAIN m.m THEN m.m[code] ELSE defaults[code]]]

\* a caller's table kept as it is
AsGiven(m) == [shared |-> FALSE, isNil |-> m.isNil, m |-> m.m]

NoServer ==
  [built |-> FALSE, stat |-> "", readerfn |-> "",
   errorHandlers |-> AsGiven(NilTable), logger |-> FALSE]

\* func VFSStaticServer(f, errorHandlers, logger)
VFSStaticServer(errorHandlers, logger, defaults) ==
  [built |-> TRUE, stat |-> "f.Lstat", readerfn |-> "f.Open",
   errorHandlers |-> SetupErrorHandlers(errorHandlers, defaults),
   logger |-> logger]

\* func OSSS(root, errorHandlers, logger)
OSSS(errorHandlers, logger, defaults) ==
  VFSStaticServer(errorHandlers, logger, defaults)

\* func MapSS(fs, errorHandlers, logger)
MapSS(errorHandlers, logger, defaults) ==
  VFSStaticServer(errorHandlers, logger, defaults)

\* func ZipSS(rc, name, errorHandlers, logger)
ZipSS(errorHandlers, logger, defaults) ==
  VFSStaticServer(errorHandlers, logger, defaults)

\* func RawStaticServer(stat, readerfn, errorHandlers, logger)
RawStaticServer(errorHandlers, logger, defaults) ==
  [built |-> TRUE, stat |-> "f.Lstat", readerfn |-> "f.Open",
   errorHandlers |-> AsGiven(errorHandlers), logger |-> logger]

Constructors == {"VFSStaticServer", "OSSS", "MapSS", "ZipSS", "RawStaticServer"}

NewServer(ctor, errorHandlers, logger, defaults) ==
  CASE ctor = "VFSStaticServer" -> VFSStaticServer(errorHandlers, logger, defaults)
    [] ctor = "OSSS" -> OSSS(errorHandlers, logger, defaults)
    [] ctor = "MapSS" -> MapSS(errorHandlers, logger, defaults)
    [] ctor = "ZipSS" -> ZipSS(errorHandlers, logger, defaults)
    [] ctor = "RawStaticServer" -> RawStaticServer(errorHandlers, logger, defaults)

\* ss.errorHandlers[code]: a missing key, or any key of a nil map, reads
\* as the nil func
Lookup(eh, defaults, code) ==
  IF eh.shared
    THEN (IF code \in DOMAIN defaults THEN defaults[code] ELSE NilFunc)
  ELSE IF code \in DOMAIN eh.m THEN eh.m[code] ELSE NilFunc

NoResponse == [code |-> 0, body |-> <<>>]

\* what a handler writes; a custom handler answers with the status it is
\* registered for (as the test's does)
HandlerResponse(h) ==
  CASE h = "default404" -> [code |-> 404, body |-> <<"Not Found">>]
    [] h = "default500" -> [code |-> 500, body |-> <<"Internal Server Error">>]
    [] h = "custom404" -> [code |-> 404, body |-> <<"Custom Not Found Handler">>]
    [] h = "custom500" -> [code |-> 500, body |-> <<"Custom Internal Error Handler">>]

\* ----------------------------------------------------------------- state
VARIABLES
  backend,               \* the asset store behind stat and readerfn
  defaultErrorHandlers,  \* the package-level handler table
  ss,                    \* the StaticServer
  supplied,              \* the errorHandlers argument the server was built with
  pc,                    \* each request's position in ServeHTTP
  url,                   \* r.URL.Path of each request
  reqpath,               \* ServeHTTP's local reqpath
  info,                  \* ServeHTTP's local info
  rds,                   \* ServeHTTP's local rds: the reader and its state
  log,                   \* the calls each request has made, in order
  resp,                  \* what was written to each request's ResponseWriter
  outcome                \* how each request ended

vars ==
  <<backend, defaultErrorHandlers, ss, supplied, pc, url, reqpath, info, rds,
    log, resp, outcome>>

serverVars == <<backend, defaultErrorHandlers, ss, supplied>>

Init ==
  /\ backend \in Backends
  /\ defaultErrorHandlers = DefaultErrorHandlersInit
  /\ ss = NoServer
  /\ supplied = NilTable
  /\ pc = [r \in Reqs |-> "idle"]
  /\ url = [r \in Reqs |-> <<"">>]
  /\ reqpath = [r \in Reqs |-> RootPath]
  /\ info = [r \in Reqs |-> NoInfo]
  /\ rds = [r \in Reqs |-> NoReader]
  /\ log = [r \in Reqs |-> <<>>]
  /\ resp = [r \in Reqs |-> NoResponse]
  /\ outcome = [r \in Reqs |-> "none"]

\* one of the constructors is called, once
Construct(ctor, errorHandlers, logger) ==
  /\ ~ss.built
  /\ ss' = NewServer(ctor, errorHandlers, logger, defaultErrorHandlers)
  /\ supplied' = errorHandlers
  /\ UNCHANGED <<backend, defaultErrorHandlers, pc, url, reqpath, info, rds,
                 log, resp, outcome>>

\* an assignment to a variable that every request shares
SetShared(f, r, v) == [q \in DOMAIN f |-> v]

\* an assignment to a local variable of request r's call of ServeHTTP
SetLocal(f, r, v) == [f EXCEPT ![r] = v]

StatEvent(p, i) == [op |-> "stat", path |-> p, isDir |-> i.isDir, err |-> i.err]
HandlerEvent(code, h) == [op |-> "handler", code |-> code, h |-> h]
OpenEvent(p, rd) == [op |-> "open", path |-> p, err |-> rd.err]
ServeEvent(i, rd, complete) ==
  [op |-> "serve", name |-> i.name, modTime |-> i.modTime, path |-> rd.path,
   readerOpen |-> rd.isopen, complete |-> complete]
CloseEvent(rd) == [op |-> "close", path |-> rd.path]

\* ss.errorHandlers[code](w, r); return.  Calling the nil func panics: the
\* handler is aborted and nothing is written.
CallHandler(r, code, events) ==
  LET h == Lookup(ss.errorHandlers, defaultErrorHandlers, code)
  IN  /\ log' = [log EXCEPT ![r] = log[r] \o events \o <<HandlerEvent(code, h)>>]
      /\ resp' = [resp EXCEPT ![r] = IF h = NilFunc THEN NoResponse
                                      ELSE HandlerResponse(h)]
      /\ outcome' = [outcome EXCEPT ![r] =
                       IF h = NilFunc THEN "panic"
                       ELSE IF code = StatusNotFound THEN "notfound"
                       ELSE "internal"]
      /\ pc' = [pc EXCEPT ![r] = "done"]

\* ServeHTTP is entered: reqpath := filepath.Clean("/" + r.URL.Path)
Start(r, u) ==
  /\ ss.built
  /\ pc[r] = "idle"
  /\ url' = [url EXCEPT ![r] = u]
  /\ reqpath' = SetLocal(reqpath, r, CleanRequestPath(u))
  /\ info' = SetLocal(info, r, NoInfo)
  /\ rds' = SetLocal(rds, r, NoReader)
  /\ pc' = [pc EXCEPT ![r] = "stat"]
  /\ UNCHANGED <<serverVars, log, resp, outcome>>

\* info, err := ss.stat(reqpath); if err != nil { 404; return }
Stat(r) ==
  /\ pc[r] = "stat"
  /\ LET i == BackendStat(backend, reqpath[r])
         ev == <<StatEvent(reqpath[r], i)>>
     IN  /\ info' = SetLocal(info, r, i)
         /\ IF i.err
              THEN CallHandler(r, StatusNotFound, ev)
              ELSE /\ log' = [log EXCEPT ![r] = log[r] \o ev]
                   /\ pc' = [pc EXCEPT ![r] = IF i.isDir THEN "index" ELSE "open"]
                   /\ UNCHANGED <<resp, outcome>>
  /\ UNCHANGED <<serverVars, url, reqpath, rds>>

\* if info.IsDir() { reqpath = Join(reqpath, "index.html"); stat again;
\* an error or a directory is answered with 404 }
StatIndex(r) ==
  /\ pc[r] = "index"
  /\ LET p == IndexPath(reqpath[r])
         i == BackendStat(backend, p)
         ev == <<StatEvent(p, i)>>
     IN  /\ reqpath' = SetLocal(reqpath, r, p)
         /\ info' = SetLocal(info, r, i)
         /\ IF i.err \/ i.isDir
              THEN CallHandler(r, StatusNotFound, ev)
              ELSE /\ log' = [log EXCEPT ![r] = log[r] \o ev]
                   /\ pc' = [pc EXCEPT ![r] = "open"]
                   /\ UNCHANGED <<resp, outcome>>
  /\ UNCHANGED <<serverVars, url, rds>>

\* rds, err := ss.readerfn(reqpath); if err != nil { 500; return }
Open(r) ==
  /\ pc[r] = "open"
  /\ LET rd == BackendOpen(backend, reqpath[r])
         ev == <<OpenEvent(reqpath[r], rd)>>
     IN  /\ rds' = SetLocal(rds, r, rd)
         /\ IF rd.err
              THEN CallHandler(r, StatusInternalServerError, ev)
              ELSE /\ log' = [log EXCEPT ![r] = log[r] \o ev]
                   /\ pc' = [pc EXCEPT ![r] = "serve"]
                   /\ UNCHANGED <<resp, outcome>>
  /\ UNCHANGED <<serverVars, url, reqpath, info>>

\* http.ServeContent(w, r, info.Name(), info.ModTime(), rds): answers a plain
\* GET with status 200 and what it reads from rds; whether the client took
\* all of it (complete) is not reported to the caller
Serve(r, complete) ==
  /\ pc[r] = "serve"
  /\ log' = [log EXCEPT ![r] = Append(log[r], ServeEvent(info[r], rds[r], complete))]
  /\ resp' = [resp EXCEPT ![r] = [code |-> 200, body |-> rds[r].content]]
  /\ outcome' = [outcome EXCEPT ![r] = "served"]
  /\ pc' = [pc EXCEPT ![r] = "close"]
  /\ UNCHANGED <<serverVars, url, reqpath, info, rds>>

\* rdsc, ok := rds.(vfs.ReadSeekCloser) with ok always false
IsReadSeekCloserNever(rd) == FALSE

\* rdsc, ok := rds.(vfs.ReadSeekCloser): rds is a ReadSeeker, so ok says
\* whether it has a Close method
IsReadSeekCloser(rd) == rd.closable

\* if ok { rdsc.Close() }; ServeHTTP returns
Close(r) ==
  /\ pc[r] = "close"
  /\ IF IsReadSeekCloser(rds[r])
       THEN /\ rds' = SetLocal(rds, r, [rds[r] EXCEPT !.isopen = FALSE])
            /\ log' = [log EXCEPT ![r] = Append(log[r], CloseEvent(rds[r]))]
       ELSE UNCHANGED <<rds, log>>
  /\ pc' = [pc EXCEPT ![r] = "done"]
  /\ UNCHANGED <<serverVars, url, reqpath, info, resp, outcome>>

\* the request is over: its ResponseWriter, locals and reader are dropped
Finish(r) ==
  /\ pc[r] = "done"
  /\ pc' = [pc EXCEPT ![r] = "idle"]
  /\ url' = [url EXCEPT ![r] = <<"">>]
  /\ reqpath' = [reqpath EXCEPT ![r] = RootPath]
  /\ info' = [info EXCEPT ![r] = NoInfo]
  /\ rds' = [rds EXCEPT ![r] = NoReader]
  /\ log' = [log EXCEPT ![r] = <<>>]
  /\ resp' = [resp EXCEPT ![r] = NoResponse]
  /\ outcome' = [outcome EXCEPT ![r] = "none"]
  /\ UNCHANGED serverVars

\* the steps of ServeHTTP for request r, after it was entered
Step(r) ==
  \/ Stat(r)
  \/ StatIndex(r)
  \/ Open(r)
  \/ \E complete \in BOOLEAN : Serve(r, complete)
  \/ Close(r)

\* a server handling one request after the other
Next ==
  \/ \E ctor \in Constructors, eh \in CallerTables : Construct(ctor, eh, FALSE)
  \/ \E u \in UrlPaths : Start(1, u)
  \/ Stat(1)
  \/ StatIndex(1)
  \/ Open(1)
  \/ \E complete \in BOOLEAN : Serve(1, complete)
  \/ Close(1)
  \/ Finish(1)

Spec == Init /\ [][Next]_vars

\* ------------------------------------------------- concurrent requests
\* the request paths and file trees used when requests overlap
ConcUrls == { <<"">>, <<"a", "">>, <<"..", "index.html">> }
ConcFiles ==
  { {}, {<<"index.html">>, <<"a", "index.html">>},
    {<<"a", "a">>, <<"index.html", "index.html">>} }

InitConc == Init /\ backend.files \in ConcFiles

\* net/http runs each request's ServeHTTP in a goroutine of its own: the
\* steps of the requests interleave freely
NextConc ==
  \/ \E ctor \in Constructors, eh \in CallerTables : Construct(ctor, eh, FALSE)
  \/ \E r \in Reqs, u \in ConcUrls : Start(r, u)
  \/ \E r \in Reqs : Stat(r)
  \/ \E r \in Reqs : StatIndex(r)
  \/ \E r \in Reqs : Open(r)
  \/ \E r \in Reqs, complete \in BOOLEAN : Serve(r, complete)
  \/ \E r \in Reqs : Close(r)
  \/ \E r \in Reqs : Finish(r)

SpecConc == InitConc /\ [][NextConc]_vars

\* ---------------------------------------------------- reading the log
EventsOf(r, op) == SelectSeq(log[r], LAMBDA e : e.op = op)
Positions(r, op) == {i \in DOMAIN log[r] : log[r][i].op = op}
Elements(q) == {q[i] : i \in DOMAIN q}
Invoked(r, h) == \E i \in Positions(r, "handler") : log[r][i].h = h

\* the cleaned path of a request and the index document below it, written
\* out from the request and the backend alone
CleanedOf(u) == Clean(<<"">> \o u)
IndexBelow(c) == [rooted |-> TRUE, names |-> Append(c.names, "index.html")]
StatsAsDir(c) == IsDirIn(backend, c.names) /\ c.names \notin backend.files
StatsAsFile(c) == c.names \in backend.files
StatFails(c) == ~StatsAsDir(c) /\ ~StatsAsFile(c)

\* ---------------------------------------------------------------- claims

\* C1: every path ServeHTTP passes to stat or to open begins with the root
\* separator and has no ".." element, whatever ".." pieces the request
\* path holds and wherever they stand.
C1_PathConfined ==
  \A r \in Reqs : \A i \in DOMAIN log[r] :
    log[r][i].op \in {"stat", "open"} =>
      /\ log[r][i].path.rooted
      /\ ".." \notin Elements(log[r][i].path.names)

\* a request with ".." in first place was resolved, opened and served
C1_Witness ==
  /\ pc[1] = "done" /\ outcome[1] = "served"
  /\ url[1][1] = ".."
  /\ Positions(1, "open") # {}

\* C2: a served request is served the resolved asset: the cleaned path when
\* it stats as a file, <cleaned path>/index.html when it stats as a directory
\* whose index.html is a file; open is called on that path, the name and
\* modification time given to ServeContent are those of that path's stat,
\* and the response is status 200 with that file's content.  A directory
\* with an index.html file whose open succeeds is served.
C2_ServedResolvedAsset ==
  \A r \in Reqs :
    LET c == CleanedOf(url[r])
        target == IF StatsAsDir(c) THEN IndexBelow(c) ELSE c
    IN  /\ outcome[r] = "served" =>
             /\ StatsAsFile(target)
             /\ EventsOf(r, "open") = <<[op |-> "open", path |-> target, err |-> FALSE]>>
             /\ Len(EventsOf(r, "serve")) = 1
             /\ EventsOf(r, "serve")[1].path = target
             /\ EventsOf(r, "serve")[1].name = Base(target.names)
             /\ EventsOf(r, "serve")[1].modTime = <<"mtime">> \o target.names
             /\ StatsAsDir(c) => EventsOf(r, "serve")[1].name = "index.html"
             /\ resp[r] = [code |-> 200, body |-> <<"content">> \o target.names]
        /\ (pc[r] = "done" /\ StatsAsDir(c) /\ StatsAsFile(IndexBelow(c))
              /\ ~backend.failOpen) => outcome[r] = "served"

\* a request for the directory a was served a/index.html
C2_Witness ==
  /\ pc[1] = "done" /\ outcome[1] = "served"
  /\ CleanedOf(url[1]).names = <<"a">>
  /\ StatsAsDir(CleanedOf(url[1]))
  /\ resp[1] = [code |-> 200, body |-> <<"content", "a", "index.html">>]

\* C3: a request whose cleaned path stats as a directory whose index.html
\* cannot be found has the 404 handler invoked and returns without a call
\* of open or of ServeContent.
C3_DirWithoutIndexNotFound ==
  \A r \in Reqs :
    LET c == CleanedOf(url[r])
    IN  (pc[r] = "done" /\ StatsAsDir(c) /\ StatFails(IndexBelow(c))) =>
          /\ outcome[r] = "notfound"
          /\ resp[r].code = 404
          /\ Positions(r, "open") = {} /\ Positions(r, "serve") = {}

\* the part of C3 that does not depend on the handler table: no open and no
\* ServeContent for a directory without index.html
C3_NoOpenWithoutIndex ==
  \A r \in Reqs :
    LET c == CleanedOf(url[r])
    IN  (pc[r] = "done" /\ StatsAsDir(c) /\ StatFails(IndexBelow(c))) =>
          /\ outcome[r] \in {"notfound", "panic"}
          /\ Positions(r, "open") = {} /\ Positions(r, "serve") = {}

\* C4: a directory whose index.html is a directory ends in NotFound; every
\* request calls stat at most twice, and no path that stat reported as a
\* directory is passed to open or to ServeContent.
C4_IndexDirNotFound ==
  \A r \in Reqs :
    LET c == CleanedOf(url[r])
    IN  /\ Cardinality(Positions(r, "stat")) <= 2
        /\ \A i \in Positions(r, "stat"), j \in DOMAIN log[r] :
             (log[r][i].isDir /\ log[r][j].op \in {"open", "serve"}) =>
               log[r][j].path # log[r][i].path
        /\ (pc[r] = "done" /\ StatsAsDir(c) /\ StatsAsDir(IndexBelow(c))) =>
             /\ outcome[r] = "notfound"
             /\ Cardinality(Positions(r, "stat")) = 2
             /\ Positions(r, "open") = {}

\* the part of C4 that does not depend on the handler table
C4_NoDescent ==
  \A r \in Reqs :
    LET c == CleanedOf(url[r])
    IN  /\ Cardinality(Positions(r, "stat")) <= 2
        /\ \A i \in Positions(r, "stat"), j \in DOMAIN log[r] :
             (log[r][i].isDir /\ log[r][j].op \in {"open", "serve"}) =>
               log[r][j].path # log[r][i].path
        /\ (pc[r] = "done" /\ StatsAsDir(c) /\ StatsAsDir(IndexBelow(c))) =>
             /\ outcome[r] \in {"notfound", "panic"}
             /\ Positions(r, "open") = {}

\* C5: a server built with a handler for 404 invokes that handler, and never
\* the default one, on every not-found condition: path absent, directory
\* without index.html, index.html a directory.
C5_CustomNotFoundInvoked ==
  (ss.built /\ ~supplied.isNil /\ StatusNotFound \in DOMAIN supplied.m) =>
    \A r \in Reqs :
      LET c == CleanedOf(url[r])
      IN  /\ ~Invoked(r, "default404")
          /\ (pc[r] = "done" /\ (StatFails(c) \/
                (StatsAsDir(c) /\ ~StatsAsFile(IndexBelow(c))))) =>
               /\ Invoked(r, supplied.m[StatusNotFound])
               /\ resp[r] = [code |-> 404, body |-> <<"Custom Not Found Handler">>]
               /\ outcome[r] = "notfound"

\* the custom 404 handler answered a request for a directory whose
\* index.html is a directory
C5_Witness ==
  /\ ss.built /\ ~supplied.isNil /\ StatusNotFound \in DOMAIN supplied.m
  /\ pc[1] = "done"
  /\ StatsAsDir(CleanedOf(url[1])) /\ StatsAsDir(IndexBelow(CleanedOf(url[1])))
  /\ Invoked(1, "custom404")

\* C6: a server built by any constructor holds a callable handler for 404
\* and for 500: the caller's where one was supplied, the default otherwise;
\* so no request ends in a call of a missing handler.
C6_HandlersCallable ==
  /\ ss.built =>
       \A code \in Codes :
         Lookup(ss.errorHandlers, defaultErrorHandlers, code) =
           IF ~supplied.isNil /\ code \in DOMAIN supplied.m
             THEN supplied.m[code] ELSE DefaultHandler(code)
  /\ \A r \in Reqs : outcome[r] # "panic"

\* C7: a closable reader that reached ServeContent is closed exactly once,
\* after ServeContent returned and before ServeHTTP returns, whether or not
\* the response was delivered; when the handler has returned the reader is
\* closed.  The reader is open while ServeContent reads it.
C7_ClosedOnceAfterServe ==
  \A r \in Reqs :
    /\ Cardinality(Positions(r, "close")) <= 1
    /\ \A j \in Positions(r, "close") :
         \E i \in Positions(r, "serve") : i < j /\ log[r][i].path = log[r][j].path
    /\ \A i \in Positions(r, "serve") : log[r][i].readerOpen
    /\ (pc[r] = "done" /\ Positions(r, "serve") # {} /\ backend.closable) =>
         /\ Cardinality(Positions(r, "close")) = 1
         /\ ~rds[r].isopen

\* a closable reader was closed after a response the client did not take
C7_Witness ==
  /\ pc[1] = "done" /\ backend.closable
  /\ \E i \in Positions(1, "serve") : ~log[1][i].complete
  /\ Positions(1, "close") # {}
  /\ ~rds[1].isopen

\* C8 as stated: on every exit path (success, not-found, internal error)
\* exactly one reader has been opened, and no closable reader is left open.
C8_ExactlyOneReaderOpened ==
  \A r \in Reqs :
    (pc[r] = "done" /\ outcome[r] \in {"served", "notfound", "internal"}) =>
      /\ Cardinality({i \in Positions(r, "open") : ~log[r][i].err}) = 1
      /\ ~(~rds[r].err /\ rds[r].closable /\ rds[r].isopen)

\* C8 amended: a request calls open at most once; a reader is opened exactly
\* when the request is served and on no other exit path; when the handler
\* has returned no closable reader is left open.
C8_AtMostOneReaderAllClosed ==
  \A r \in Reqs :
    /\ Cardinality(Positions(r, "open")) <= 1
    /\ pc[r] = "done" =>
         /\ (outcome[r] = "served") <=>
              (Cardinality({i \in Positions(r, "open") : ~log[r][i].err}) = 1)
         /\ ~(~rds[r].err /\ rds[r].closable /\ rds[r].isopen)

\* a request over a backend of closable readers ended not-found, the handler
\* returned, and no reader was opened for it
C8_Witness ==
  /\ pc[1] = "done" /\ outcome[1] = "notfound"
  /\ Positions(1, "open") = {}
  /\ backend.closable /\ backend.files # {}

\* C9: every request ends in exactly one of served, 404 handler invoked, 500
\* handler invoked; a stat failure leads to the 404 handler only, an open
\* failure to the 500 handler only, and nothing is called after a handler.
C9_ExactlyOneOutcome ==
  \A r \in Reqs :
    /\ pc[r] = "done" =>
         /\ outcome[r] \in {"served", "notfound", "internal"}
         /\ Cardinality(Positions(r, "serve")) + Cardinality(Positions(r, "handler")) = 1
         /\ outcome[r] = "notfound" <=>
              (\E i \in Positions(r, "stat") : log[r][i].err \/
                 (i # 1 /\ log[r][i].isDir))
         /\ outcome[r] = "internal" <=> (\E i \in Positions(r, "open") : log[r][i].err)
    /\ \A i \in Positions(r, "handler") : i = Len(log[r])

\* the part of C9 that does not depend on the handler table: at most one
\* handler call, and it is the last call of the request
C9_NoRetry ==
  \A r \in Reqs :
    /\ Cardinality(Positions(r, "serve")) + Cardinality(Positions(r, "handler")) <= 1
    /\ \A i \in Positions(r, "handler") :
         /\ i = Len(log[r])
         /\ log[r][i].code = StatusNotFound <=> log[r][i - 1].op = "stat"
         /\ log[r][i].code = StatusInternalServerError <=> log[r][i - 1].op = "open"

\* what a request for u comes to when ServeHTTP runs alone
Alone(u) ==
  LET c == CleanedOf(u)
      target == IF StatsAsDir(c) THEN IndexBelow(c) ELSE c
      h404 == Lookup(ss.errorHandlers, defaultErrorHandlers, StatusNotFound)
      h500 == Lookup(ss.errorHandlers, defaultErrorHandlers, StatusInternalServerError)
  IN  IF ~StatsAsFile(target)
        THEN [handler |-> <<h404>>, opened |-> <<>>, closed |-> FALSE,
              code |-> IF h404 = NilFunc THEN 0 ELSE 404]
      ELSE IF backend.failOpen
        THEN [handler |-> <<h500>>, opened |-> <<target>>, closed |-> FALSE,
              code |-> IF h500 = NilFunc THEN 0 ELSE 500]
      ELSE [handler |-> <<>>, opened |-> <<target>>, closed |-> backend.closable,
            code |-> 200]

\* what request r came to
Came(r) ==
  [handler |-> [i \in 1..Len(EventsOf(r, "handler")) |-> EventsOf(r, "handler")[i].h],
   opened |-> [i \in 1..Len(EventsOf(r, "open")) |-> EventsOf(r, "open")[i].path],
   closed |-> Positions(r, "close") # {},
   code |-> resp[r].code]

\* C10: the steps of ServeHTTP change neither the server (stat, readerfn,
\* handler table, logger) nor the package-level handler table, and under
\* every interleaving of concurrent requests each request comes to what it
\* comes to alone: the same handler, the same path opened, the same closing
\* of its reader, the same status.
C10_RequestsIndependent ==
  /\ [](\A r \in Reqs : pc[r] = "done" => Came(r) = Alone(url[r]))
  /\ [][ss.built => (ss' = ss /\ defaultErrorHandlers' = defaultErrorHandlers
                      /\ backend' = backend)]_vars

\* two requests for different assets overlapped and both have returned, one
\* served and one not found
C10_Witness ==
  /\ pc[1] = "done" /\ pc[2] = "done"
  /\ outcome[1] = "served" /\ outcome[2] # "served"
  /\ url[1] # url[2]

====
